---------------------------- MODULE Spec2Model ----------------------------
(***************************************************************************)
(* State-machine model of the fridge inventory component (src/App.tsx).    *)
(*                                                                         *)
(* The component keeps the item collection in React state (items), mirrors *)
(* it to localStorage under STORAGE_KEY from an effect, and derives the    *)
(* visible list (filteredItems) from the collection and three pieces of    *)
(* view state.  Two specifications are given:                              *)
(*                                                                         *)
(*   Spec    the store operations (the handlers of lines 44-74) applied    *)
(*           with any id and any delta of the bounded input sets;          *)
(*   SpecUI  the component as rendered: a handler runs only from a button  *)
(*           that the current view actually renders (lines 256-306).       *)
(*                                                                         *)
(* Strings that the code searches in (name) or treats as opaque text       *)
(* (unit) are sequences of UTF-16 code units; ids and categories are       *)
(* atoms.  Times are milliseconds since the epoch.                         *)
(***************************************************************************)
EXTENDS Integers, Sequences, FiniteSets, TLC

VARIABLES
    items,          \* useState<InventoryItem[]>([])            (line 13)
    filterCategory, \* useState<Category | 'ALL'>('ALL')        (line 14)
    searchTerm,     \* useState('')                             (line 15)
    isModalOpen,    \* useState(false)                          (line 16)
    showTrash,      \* useState(false)                          (line 17)
    storage,        \* localStorage[STORAGE_KEY]
    pc,             \* position in the mount sequence of the component
    saved,          \* the value the load effect read           (line 21)
    pending,        \* the setItems update queued by the load effect
    now,            \* the wall clock, Date.now()
    issued,         \* the ids crypto.randomUUID() has returned so far
    purged,         \* history: ids removed by deleteForever
    last,           \* history: the last store operation and its arguments
    nops            \* history: number of store operations so far

vars == << items, filterCategory, searchTerm, isModalOpen, showTrash, storage,
           pc, saved, pending, now, issued, purged, last, nops >>

view == << filterCategory, searchTerm, isModalOpen, showTrash >>

-----------------------------------------------------------------------------
(* Bounds of the model.                                                    *)

\* store operations (add, adjust, soft-delete, restore, purge) per run
MaxOps == 2

\* calls of handleAddItem
MaxAdds == 2

-----------------------------------------------------------------------------
(* Program constants.                                                      *)

\* 86400000 (line 31), 1000 * 60 * 60 * 24 (line 81)
MS_PER_DAY == 86400000

\* the clock value of the first mount: day 10, 00:00:00.000
EPOCH_DAY == 10

Categories == {"MEAT", "VEGETABLE", "FRUIT", "SEAFOOD", "OTHER"}

\* crypto.randomUUID() values; the seed ids '1'..'4' are not UUIDs
UUIDs == {"uuid-a", "uuid-b", "uuid-c"}

SeedIds == {"1", "2", "3", "4"}

\* an id that no item ever carries
MissingId == "missing"

\* the deltas handleUpdateQuantity is called with; the buttons pass -1 and 1
Deltas == {-2, -1, 1}

\* search terms typed into the search box: "", "牛", "MILK"
SearchTerms == { << >>, << 29275 >>, << 77, 73, 76, 75 >> }

Filters == Categories \cup {"ALL"}

\* drafts handed over by AddItemModal: {name, quantity, unit, category, isDeleted}
Drafts ==
    { [name |-> << 77, 105, 108, 107 >>, quantity |-> 1, unit |-> << 76 >>,
       category |-> "OTHER", isDeleted |-> FALSE],
      [name |-> << 29275, 25490 >>, quantity |-> 2, unit |-> << 22359 >>,
       category |-> "MEAT", isDeleted |-> TRUE] }

-----------------------------------------------------------------------------
(* Date: new Date(ms).toISOString() and new Date(str).getTime().           *)
(* An ISO string is a calendar date and a time of day; the model keeps the *)
(* two parts (day number since the epoch, milliseconds into that day).     *)

toISOString(ms) == [date |-> ms \div MS_PER_DAY, time |-> ms % MS_PER_DAY]

getTime(iso) == iso.date * MS_PER_DAY + iso.time

-----------------------------------------------------------------------------
(* JSON.stringify / JSON.parse of the collection.                          *)
(* A JSON text is an array of objects; an object maps each key to a token: *)
(* a number literal, a string literal, true or false.                      *)

JsonToken(k, v) ==
    CASE k = "quantity"  -> [lit |-> "number", num |-> v]
      [] k = "isDeleted" -> [lit |-> IF v THEN "true" ELSE "false"]
      [] OTHER           -> [lit |-> "string", str |-> v]

JsonValue(tok) ==
    CASE tok.lit = "number" -> tok.num
      [] tok.lit = "string" -> tok.str
      [] tok.lit = "true"   -> TRUE
      [] tok.lit = "false"  -> FALSE

JSONstringify(arr) ==
    [kind  |-> "array",
     elems |-> [i \in 1 .. Len(arr) |->
                  [k \in DOMAIN arr[i] |-> JsonToken(k, arr[i][k])]]]

\* JSON.parse throws a SyntaxError on a text that is not JSON
JSONparseThrows(text) == text.kind # "array"

JSONparse(text) ==
    [i \in 1 .. Len(text.elems) |->
        [k \in DOMAIN text.elems[i] |-> JsonValue(text.elems[i][k])]]

\* localStorage.getItem: null when the key is absent
NoEntry == [kind |-> "null", elems |-> << >>]

EmptyText == [kind |-> "empty", elems |-> << >>]

Malformed == [kind |-> "malformed", elems |-> << >>]

\* if (saved): null and "" are falsy, every other string is truthy
Truthy(text) == text.kind \notin {"null", "empty"}


-----------------------------------------------------------------------------
(* The store operations: the updater each handler passes to setItems.      *)

\* variant of SeedItems: every demo item is dated at the clock value
SeedItemsUndated(ms) ==
    << [id |-> "1", name |-> << 20840, 33026, 29275, 22902 >>, quantity |-> 1,
        unit |-> << 76 >>, category |-> "OTHER",
        addedDate |-> toISOString(ms), isDeleted |-> FALSE],
       [id |-> "2", name |-> << 22522, 22260, 34430 >>, quantity |-> 20,
        unit |-> << 21482 >>, category |-> "SEAFOOD",
        addedDate |-> toISOString(ms), isDeleted |-> FALSE],
       [id |-> "3", name |-> << 19978, 28023, 38738 >>, quantity |-> 3,
        unit |-> << 25226 >>, category |-> "VEGETABLE",
        addedDate |-> toISOString(ms), isDeleted |-> FALSE],
       [id |-> "4", name |-> << 29275, 25490 >>, quantity |-> 2,
        unit |-> << 22359 >>, category |-> "MEAT",
        addedDate |-> toISOString(ms), isDeleted |-> FALSE] >>

\* Demo Data (lines 30-35), built at clock value ms
SeedItems(ms) ==
    << [id |-> "1", name |-> << 20840, 33026, 29275, 22902 >>, quantity |-> 1,
        unit |-> << 76 >>, category |-> "OTHER",
        addedDate |-> toISOString(ms - MS_PER_DAY * 1), isDeleted |-> FALSE],
       [id |-> "2", name |-> << 22522, 22260, 34430 >>, quantity |-> 20,
        unit |-> << 21482 >>, category |-> "SEAFOOD",
        addedDate |-> toISOString(ms - MS_PER_DAY * 0), isDeleted |-> FALSE],
       [id |-> "3", name |-> << 19978, 28023, 38738 >>, quantity |-> 3,
        unit |-> << 25226 >>, category |-> "VEGETABLE",
        addedDate |-> toISOString(ms - MS_PER_DAY * 4), isDeleted |-> FALSE],
       [id |-> "4", name |-> << 29275, 25490 >>, quantity |-> 2,
        unit |-> << 22359 >>, category |-> "MEAT",
        addedDate |-> toISOString(ms - MS_PER_DAY * 8), isDeleted |-> FALSE] >>

\* crypto.randomUUID(): a version-4 UUID, distinct from every one returned before
randomUUID(given) == UUIDs \ given

\* variant of NewItem: the draft is spread last, { id, addedDate,
\* isDeleted: false, ...newItem }, so that its keys win
NewItemSpreadLast(newItem, uuid, ms) ==
    [k \in DOMAIN newItem \cup {"id", "addedDate", "isDeleted"} |->
        IF k \in DOMAIN newItem THEN newItem[k]
        ELSE CASE k = "id"        -> uuid
               [] k = "addedDate" -> toISOString(ms)
               [] k = "isDeleted" -> FALSE]

\* { ...newItem, id, addedDate, isDeleted: false }: later keys override the spread
NewItem(newItem, uuid, ms) ==
    [k \in DOMAIN newItem \cup {"id", "addedDate", "isDeleted"} |->
        CASE k = "id"        -> uuid
          [] k = "addedDate" -> toISOString(ms)
          [] k = "isDeleted" -> FALSE
          [] OTHER           -> newItem[k]]

\* variant of handleAddItem: the new item is put last, [...prev, item]
handleAddItemAppend(prev, newItem, uuid, ms) ==
    prev \o << NewItem(newItem, uuid, ms) >>

\* setItems(prev => [item, ...prev])
handleAddItem(prev, newItem, uuid, ms) == << NewItem(newItem, uuid, ms) >> \o prev

\* variant of moveToTrash: the flag is toggled, not set
moveToTrashToggle(prev, id) ==
    [i \in 1 .. Len(prev) |->
        IF prev[i].id = id
        THEN [prev[i] EXCEPT !.isDeleted = ~prev[i].isDeleted] ELSE prev[i]]

\* prev.map(item => item.id === id ? { ...item, isDeleted: true } : item)
moveToTrash(prev, id) ==
    [i \in 1 .. Len(prev) |->
        IF prev[i].id = id THEN [prev[i] EXCEPT !.isDeleted = TRUE] ELSE prev[i]]

\* prev.map(item => item.id === id ? { ...item, isDeleted: false } : item)
restoreFromTrash(prev, id) ==
    [i \in 1 .. Len(prev) |->
        IF prev[i].id = id THEN [prev[i] EXCEPT !.isDeleted = FALSE] ELSE prev[i]]

\* variant of deleteForever: the test of the filter is inverted,
\* prev.filter(item => item.id === id)
deleteForeverKeepMatching(prev, id) ==
    SelectSeq(prev, LAMBDA item : item.id = id)

\* variant of deleteForever: the item is flagged, not removed
deleteForeverFlagOnly(prev, id) ==
    [i \in 1 .. Len(prev) |->
        IF prev[i].id = id THEN [prev[i] EXCEPT !.isDeleted = TRUE] ELSE prev[i]]

\* prev.filter(item => item.id !== id)
deleteForever(prev, id) == SelectSeq(prev, LAMBDA item : item.id # id)

\* variant of UpdatedItem: an item whose quantity changes is made active,
\* { ...item, quantity: newQty, isDeleted: false }
UpdatedItemMadeActive(item, delta) ==
    LET newQty == item.quantity + delta
    IN  IF newQty > 0
        THEN [item EXCEPT !.quantity = newQty, !.isDeleted = FALSE]
        ELSE item

\* variant of UpdatedItem: the test is newQty >= 0
UpdatedItemAllowZero(item, delta) ==
    LET newQty == item.quantity + delta
    IN  IF newQty >= 0 THEN [item EXCEPT !.quantity = newQty] ELSE item

\* variant of UpdatedItem: a rejected update clamps the quantity to 1
UpdatedItemClamped(item, delta) ==
    LET newQty == item.quantity + delta
    IN  [item EXCEPT !.quantity = IF newQty > 0 THEN newQty ELSE 1]

\* variant of UpdatedItem: only an active item is updated
UpdatedItemActiveOnly(item, delta) ==
    LET newQty == item.quantity + delta
    IN  IF newQty > 0 /\ ~item.isDeleted
        THEN [item EXCEPT !.quantity = newQty] ELSE item

\* newQty > 0 ? { ...item, quantity: newQty } : item
UpdatedItem(item, delta) ==
    LET newQty == item.quantity + delta
    IN  IF newQty > 0 THEN [item EXCEPT !.quantity = newQty] ELSE item

\* prev.map(item => item.id === id ? <updated item> : item)
handleUpdateQuantity(prev, id, delta) ==
    [i \in 1 .. Len(prev) |->
        IF prev[i].id = id THEN UpdatedItem(prev[i], delta) ELSE prev[i]]

-----------------------------------------------------------------------------
(* The derived view (lines 76-121).                                        *)

\* variant of getDaysStored: the difference is not passed through Math.abs
getDaysStoredSigned(dateStr, ms) == (ms - getTime(dateStr)) \div MS_PER_DAY

\* Math.floor(Math.abs(now - added) / (1000 * 60 * 60 * 24))
getDaysStored(dateStr, ms) ==
    LET diff == ms - getTime(dateStr)
    IN  (IF diff < 0 THEN -diff ELSE diff) \div MS_PER_DAY

\* variant of getFreshnessColor: the boundary days belong to the upper tier
getFreshnessColorStrict(days) ==
    IF days < 3 THEN "emerald" ELSE IF days < 7 THEN "amber" ELSE "rose"

\* Fresh (0-3 days) -> Medium (4-7 days) -> Old
getFreshnessColor(days) ==
    IF days <= 3 THEN "emerald" ELSE IF days <= 7 THEN "amber" ELSE "rose"

\* String.prototype.toLowerCase on one code unit: A-Z map to a-z; the other
\* code units of the model's alphabet (a-z, CJK ideographs) have no lower case
LowerUnit(c) == IF c >= 65 /\ c <= 90 THEN c + 32 ELSE c

toLowerCase(s) == [i \in 1 .. Len(s) |-> LowerUnit(s[i])]

\* String.prototype.includes
includes(s, t) ==
    \E i \in 0 .. (Len(s) - Len(t)) : SubSeq(s, i + 1, i + Len(t)) = t

\* variant of Visible: the search compares the name and the term as typed
VisibleCaseSensitive(item, trash, cat, term) ==
    IF trash THEN item.isDeleted
    ELSE IF item.isDeleted THEN FALSE
    ELSE LET matchesCategory == cat = "ALL" \/ item.category = cat
             matchesSearch == includes(item.name, term)
         IN  matchesCategory /\ matchesSearch

\* variant of Visible: the category filter and the search term also apply
\* in trash mode
VisibleFilteredTrash(item, trash, cat, term) ==
    LET matchesCategory == cat = "ALL" \/ item.category = cat
        matchesSearch == includes(toLowerCase(item.name), toLowerCase(term))
    IN  item.isDeleted = trash /\ matchesCategory /\ matchesSearch

\* the predicate handed to items.filter (lines 111-120)
Visible(item, trash, cat, term) ==
    IF trash THEN item.isDeleted
    ELSE IF item.isDeleted THEN FALSE
    ELSE LET matchesCategory == cat = "ALL" \/ item.category = cat
             matchesSearch == includes(toLowerCase(item.name), toLowerCase(term))
         IN  matchesCategory /\ matchesSearch

\* the comparator: new Date(b.addedDate).getTime() - new Date(a.addedDate).getTime()
Compare(a, b) == getTime(b.addedDate) - getTime(a.addedDate)

\* variant of InsertSorted: an element goes before the elements it compares
\* equal to (a sort that is not stable)
RECURSIVE InsertSortedBeforeEqual(_, _)
InsertSortedBeforeEqual(sorted, x) ==
    IF sorted = << >> THEN << x >>
    ELSE IF Compare(Head(sorted), x) < 0
         THEN << Head(sorted) >> \o InsertSortedBeforeEqual(Tail(sorted), x)
         ELSE << x >> \o sorted

\* Array.prototype.sort is stable: an element goes after every element that
\* does not compare greater than it
RECURSIVE InsertSorted(_, _)
InsertSorted(sorted, x) ==
    IF sorted = << >> THEN << x >>
    ELSE IF Compare(Head(sorted), x) <= 0
         THEN << Head(sorted) >> \o InsertSorted(Tail(sorted), x)
         ELSE << x >> \o sorted

RECURSIVE SortNewestFirst(_)
SortNewestFirst(s) ==
    IF s = << >> THEN << >>
    ELSE InsertSorted(SortNewestFirst(SubSeq(s, 1, Len(s) - 1)), s[Len(s)])

filteredItems(coll, trash, cat, term) ==
    SortNewestFirst(SelectSeq(coll, LAMBDA item : Visible(item, trash, cat, term)))

\* ids of a sequence of items
IdsOf(s) == { s[i].id : i \in 1 .. Len(s) }


-----------------------------------------------------------------------------
(* Mounting the component: the two effects of lines 20-42, then the        *)
(* re-render that the load effect's setItems causes.                       *)

NoUpdate == [set |-> FALSE, val |-> << >>]

Unread == [kind |-> "unread", elems |-> << >>]

\* the clock values of a run: the first mount, and half a day later
ClockValues == { EPOCH_DAY * MS_PER_DAY, EPOCH_DAY * MS_PER_DAY + MS_PER_DAY \div 2 }

\* variant of LoadedUpdate: a stored collection that is empty is replaced by
\* the seed collection
LoadedUpdateSeedIfEmpty(text, ms) ==
    IF Truthy(text) /\ ~JSONparseThrows(text) /\ JSONparse(text) # << >>
    THEN [set |-> TRUE, val |-> JSONparse(text)]
    ELSE IF Truthy(text) /\ JSONparseThrows(text)
         THEN NoUpdate
         ELSE [set |-> TRUE, val |-> SeedItems(ms)]

\* what the load effect hands to setItems, if anything (lines 21-36)
LoadedUpdate(text, ms) ==
    IF Truthy(text)
    THEN IF JSONparseThrows(text)
         THEN NoUpdate                                 \* console.error only
         ELSE [set |-> TRUE, val |-> JSONparse(text)]
    ELSE [set |-> TRUE, val |-> SeedItems(ms)]

\* variant of SaveEffectText: only the active items are written
SaveEffectTextActiveOnly(coll) ==
    JSONstringify(SelectSeq(coll, LAMBDA item : ~item.isDeleted))

\* localStorage.setItem(STORAGE_KEY, JSON.stringify(items))  (line 41)
SaveEffectText(coll) == JSONstringify(coll)

\* a state update of items: the re-render and the save effect that its
\* dependency [items] triggers
Commit(coll) ==
    /\ items' = coll
    /\ storage' = SaveEffectText(coll)

Init ==
    /\ items = << >>
    /\ filterCategory = "ALL"
    /\ searchTerm = << >>
    /\ isModalOpen = FALSE
    /\ showTrash = FALSE
    /\ storage \in {NoEntry, EmptyText, Malformed, JSONstringify(<< >>)}
    /\ pc = "mounted"
    /\ saved = Unread
    /\ pending = NoUpdate
    /\ now = EPOCH_DAY * MS_PER_DAY
    /\ issued = {}
    /\ purged = {}
    /\ last = [op |-> "init", id |-> "", arg |-> 0, target |-> << >>]
    /\ nops = 0

\* useEffect(() => { const saved = localStorage.getItem(...); ... }, [])
LoadEffect ==
    /\ pc = "mounted"
    /\ saved' = storage
    /\ pending' = LoadedUpdate(storage, now)
    /\ pc' = "loaded"
    /\ UNCHANGED << items, view, storage, now, issued, purged, last, nops >>

\* useEffect(() => { localStorage.setItem(...) }, [items]) on mount: the
\* effect closes over the items of the first render
SaveEffect ==
    /\ pc = "loaded"
    /\ storage' = SaveEffectText(items)
    /\ pc' = "saved"
    /\ UNCHANGED << items, view, saved, pending, now, issued, purged, last, nops >>

\* the queued update is applied; without one nothing re-renders
Rerender ==
    /\ pc = "saved"
    /\ IF pending.set THEN Commit(pending.val) ELSE UNCHANGED << items, storage >>
    /\ pending' = NoUpdate
    /\ pc' = "ready"
    /\ UNCHANGED << view, saved, now, issued, purged, last, nops >>

\* the page is closed and opened again, once the mount effects have run:
\* React state is lost, localStorage, the clock and the UUID generator are not
Restart ==
    /\ pc \in {"saved", "ready"}
    /\ items' = << >>
    /\ filterCategory' = "ALL"
    /\ searchTerm' = << >>
    /\ isModalOpen' = FALSE
    /\ showTrash' = FALSE
    /\ pc' = "mounted"
    /\ saved' = Unread
    /\ pending' = NoUpdate
    /\ last' = [op |-> "restart", id |-> "", arg |-> items, target |-> << >>]
    /\ UNCHANGED << storage, now, issued, purged, nops >>

\* time passes
Tick ==
    /\ now + MS_PER_DAY \div 2 \in ClockValues
    /\ now' = now + MS_PER_DAY \div 2
    /\ UNCHANGED << items, view, storage, pc, saved, pending, issued, purged,
                    last, nops >>

-----------------------------------------------------------------------------
(* The handlers.                                                           *)

\* the items of a collection that carry an id
WithId(coll, id) == SelectSeq(coll, LAMBDA item : item.id = id)

\* history: the operation, its arguments, and its target as it was before
Record(op, id, arg) ==
    /\ last' = [op |-> op, id |-> id, arg |-> arg, target |-> WithId(items, id)]
    /\ nops' = nops + 1

CanOperate == pc = "ready" /\ nops < MaxOps

HandleAddItem(newItem) ==
    /\ CanOperate
    /\ Cardinality(issued) < MaxAdds
    /\ \E uuid \in randomUUID(issued) :
          /\ Commit(handleAddItem(items, newItem, uuid, now))
          /\ issued' = issued \cup {uuid}
          /\ Record("add", uuid, newItem)
    /\ UNCHANGED << view, pc, saved, pending, now, purged >>

MoveToTrash(id) ==
    /\ CanOperate
    /\ Commit(moveToTrash(items, id))
    /\ Record("softDelete", id, 0)
    /\ UNCHANGED << view, pc, saved, pending, now, issued, purged >>

RestoreFromTrash(id) ==
    /\ CanOperate
    /\ Commit(restoreFromTrash(items, id))
    /\ Record("restore", id, 0)
    /\ UNCHANGED << view, pc, saved, pending, now, issued, purged >>

DeleteForever(id) ==
    /\ CanOperate
    /\ Commit(deleteForever(items, id))
    /\ purged' = IF id \in IdsOf(items) THEN purged \cup {id} ELSE purged
    /\ Record("purge", id, 0)
    /\ UNCHANGED << view, pc, saved, pending, now, issued >>

HandleUpdateQuantity(id, delta) ==
    /\ CanOperate
    /\ Commit(handleUpdateQuantity(items, id, delta))
    /\ Record("adjust", id, delta)
    /\ UNCHANGED << view, pc, saved, pending, now, issued, purged >>

\* the ids a handler is called with: those in the collection, those of purged
\* items, and one that was never assigned
Ids == IdsOf(items) \cup purged \cup {MissingId}

Startup == LoadEffect \/ SaveEffect \/ Rerender \/ Restart \/ Tick

\* the store operations, called with any target and any delta
Next ==
    \/ Startup
    \/ \E newItem \in Drafts : HandleAddItem(newItem)
    \/ \E id \in Ids : MoveToTrash(id)
    \/ \E id \in Ids : RestoreFromTrash(id)
    \/ \E id \in Ids : DeleteForever(id)
    \/ \E id \in Ids, delta \in Deltas : HandleUpdateQuantity(id, delta)

Spec == Init /\ [][Next]_vars


-----------------------------------------------------------------------------
(* The component as rendered (lines 123-331): which controls exist.        *)

\* the list the component renders
Shown == filteredItems(items, showTrash, filterCategory, searchTerm)

\* showTrash ? <restore, delete forever> : <quantity controls, move to trash>
\* (lines 256-306): the ids whose row carries each button
RestoreButtons(list, trash) == IF trash THEN IdsOf(list) ELSE {}

\* variant of DeleteForeverButtons: the button is rendered in both modes
DeleteForeverButtonsAlways(list, trash) == IdsOf(list)

DeleteForeverButtons(list, trash) == IF trash THEN IdsOf(list) ELSE {}

QuantityButtons(list, trash) == IF trash THEN {} ELSE IdsOf(list)

TrashButtons(list, trash) == IF trash THEN {} ELSE IdsOf(list)

\* the category buttons pressed: 全部, and one category
FilterChoices == {"ALL", "MEAT"}

\* the texts typed into the search box: "" and "IL"
TypedTerms == { << >>, << 73, 76 >> }

\* the two quantity buttons call handleUpdateQuantity(item.id, -1) and (item.id, 1)
ButtonDeltas == {-1, 1}

\* onClick={() => setShowTrash(!showTrash)}  (line 155)
ToggleTrash ==
    /\ pc = "ready"
    /\ showTrash' = ~showTrash
    /\ UNCHANGED << items, filterCategory, searchTerm, isModalOpen, storage, pc,
                    saved, pending, now, issued, purged, last, nops >>

\* the category buttons exist in the main view only (lines 176-204)
SetFilterCategory(cat) ==
    /\ pc = "ready"
    /\ ~showTrash
    /\ filterCategory' = cat
    /\ UNCHANGED << items, searchTerm, isModalOpen, showTrash, storage, pc,
                    saved, pending, now, issued, purged, last, nops >>

\* the search box exists in the main view only (lines 141-152)
SetSearchTerm(term) ==
    /\ pc = "ready"
    /\ ~showTrash
    /\ searchTerm' = term
    /\ UNCHANGED << items, filterCategory, isModalOpen, showTrash, storage, pc,
                    saved, pending, now, issued, purged, last, nops >>

\* the floating button exists in the main view only (lines 316-323)
OpenModal ==
    /\ pc = "ready"
    /\ ~showTrash
    /\ isModalOpen' = TRUE
    /\ UNCHANGED << items, filterCategory, searchTerm, showTrash, storage, pc,
                    saved, pending, now, issued, purged, last, nops >>

\* onClose={() => setIsModalOpen(false)}  (line 328)
CloseModal ==
    /\ pc = "ready"
    /\ isModalOpen
    /\ isModalOpen' = FALSE
    /\ UNCHANGED << items, filterCategory, searchTerm, showTrash, storage, pc,
                    saved, pending, now, issued, purged, last, nops >>

\* the component driven through the controls it renders; the clock is held,
\* since no control depends on it
NextUI ==
    \/ LoadEffect
    \/ SaveEffect
    \/ Rerender
    \/ Restart
    \/ ToggleTrash
    \/ \E cat \in FilterChoices : SetFilterCategory(cat)
    \/ \E term \in TypedTerms : SetSearchTerm(term)
    \/ OpenModal
    \/ CloseModal
    \/ \E newItem \in Drafts : isModalOpen /\ HandleAddItem(newItem)
    \/ \E id \in TrashButtons(Shown, showTrash) : MoveToTrash(id)
    \/ \E id \in RestoreButtons(Shown, showTrash) : RestoreFromTrash(id)
    \/ \E id \in DeleteForeverButtons(Shown, showTrash) : DeleteForever(id)
    \/ \E id \in QuantityButtons(Shown, showTrash), delta \in ButtonDeltas :
          HandleUpdateQuantity(id, delta)

SpecUI == Init /\ [][NextUI]_vars


-----------------------------------------------------------------------------
(* The rows of the list (lines 218-221): each render computes the days an  *)
(* item was stored and its freshness from the clock of that moment.        *)

\* how many days the clock moves away from the first mount, either way
MaxDrift == 3

\* the clock values a render reads: whole days around the first mount, the
\* millisecond before each, and half a day after each
DriftClocks ==
    { EPOCH_DAY * MS_PER_DAY + d * MS_PER_DAY + e :
        d \in -MaxDrift .. MaxDrift, e \in {-1, 0, MS_PER_DAY \div 2} }

\* time passes, or the system clock is set back
SetClock(ms) ==
    /\ pc = "ready"
    /\ ms # now
    /\ now' = ms
    /\ UNCHANGED << items, view, storage, pc, saved, pending, issued, purged,
                    last, nops >>

\* one row of filteredItems.map: daysStored and freshStatus of the item
RenderRow(i) ==
    /\ pc = "ready"
    /\ LET item == Shown[i]
           daysStored == getDaysStored(item.addedDate, now)
           freshStatus == getFreshnessColor(daysStored)
       IN  last' = [op |-> "render", id |-> item.id,
                    arg |-> [now |-> now, daysStored |-> daysStored,
                             freshStatus |-> freshStatus],
                    target |-> << item >>]
    /\ UNCHANGED << items, view, storage, pc, saved, pending, now, issued,
                    purged, nops >>

NextRender ==
    \/ LoadEffect
    \/ SaveEffect
    \/ Rerender
    \/ \E ms \in DriftClocks : SetClock(ms)
    \/ \E i \in 1 .. Len(Shown) : RenderRow(i)

SpecRender == Init /\ [][NextRender]_vars


-----------------------------------------------------------------------------
(* Properties.                                                             *)

MutationOps == {"add", "adjust", "softDelete", "restore", "purge"}

\* this step is one store operation
OpStep == pc = "ready" /\ pc' = "ready" /\ nops' = nops + 1

\* the item of the collection that carries id (ids are unique, see C10)
ItemOf(coll, id) == WithId(coll, id)[1]

\* every field but quantity agrees
SameButQuantity(a, b) ==
    /\ a.id = b.id /\ a.name = b.name /\ a.unit = b.unit
    /\ a.category = b.category /\ a.addedDate = b.addedDate
    /\ a.isDeleted = b.isDeleted

\* every field but isDeleted agrees
SameButFlag(a, b) ==
    /\ a.id = b.id /\ a.name = b.name /\ a.unit = b.unit
    /\ a.category = b.category /\ a.addedDate = b.addedDate
    /\ a.quantity = b.quantity

\* C1: every item of the collection has quantity >= 1, whatever sequence of
\* add, adjustQuantity (any delta), softDelete, restore and purge ran.
C1_QuantityFloor ==
    \A i \in 1 .. Len(items) : items[i].quantity >= 1

\* C1 witness: an adjustQuantity that would have reached zero or below was
\* applied to an item of the collection, which still has its quantity.
C1_Witness ==
    /\ pc = "ready"
    /\ last.op = "adjust"
    /\ last.target # << >>
    /\ last.target[1].quantity + last.arg <= 0
    /\ ItemOf(items, last.id).quantity = last.target[1].quantity

\* C2: adjustQuantity(id, delta) on an item with quantity q sets the quantity
\* to exactly q + delta when q + delta > 0 and changes nothing else of the
\* item; when q + delta <= 0 the whole collection stays as it was.
C2_AdjustExact ==
    [][ (OpStep /\ last'.op = "adjust" /\ WithId(items, last'.id) # << >>) =>
           /\ Len(items') = Len(items)
           /\ \A i \in 1 .. Len(items) :
                 IF items[i].id = last'.id /\ items[i].quantity + last'.arg > 0
                 THEN /\ items'[i].quantity = items[i].quantity + last'.arg
                      /\ SameButQuantity(items'[i], items[i])
                 ELSE items'[i] = items[i]
           /\ (ItemOf(items, last'.id).quantity + last'.arg <= 0 => items' = items)
      ]_vars

\* C2 witness: adjustQuantity(id, -1) ran on an item with quantity 1, which
\* still has quantity 1.
C2_Witness ==
    /\ pc = "ready"
    /\ last.op = "adjust"
    /\ last.arg = -1
    /\ last.target # << >>
    /\ last.target[1].quantity = 1
    /\ ItemOf(items, last.id).quantity = 1


\* C3, as claimed: adjustQuantity(id, delta) changes the collection only when
\* an active item carries the id; when the item that carries it is
\* soft-deleted, the collection stays as it was, for every delta.
C3_AdjustOnlyActive ==
    [][ (OpStep /\ last'.op = "adjust") =>
           /\ items' # items =>
                 \E i \in 1 .. Len(items) :
                     items[i].id = last'.id /\ ~items[i].isDeleted
           /\ (\E i \in 1 .. Len(items) :
                  items[i].id = last'.id /\ items[i].isDeleted) => items' = items
      ]_vars

\* C3, amended: adjustQuantity(id, delta) does not look at isDeleted: an item
\* that carries the id, active or soft-deleted, gets quantity q + delta when
\* q + delta > 0 and keeps its flag; an item with another id is left as it is.
C3_AdjustIgnoresFlag ==
    [][ (OpStep /\ last'.op = "adjust") =>
           /\ Len(items') = Len(items)
           /\ \A i \in 1 .. Len(items) :
                 IF items[i].id = last'.id
                 THEN /\ items'[i].isDeleted = items[i].isDeleted
                      /\ items'[i].quantity =
                            IF items[i].quantity + last'.arg > 0
                            THEN items[i].quantity + last'.arg
                            ELSE items[i].quantity
                 ELSE items'[i] = items[i]
      ]_vars

\* C3 witness: adjustQuantity ran on a soft-deleted item and changed its
\* quantity; the item is still soft-deleted.
C3_Witness ==
    /\ pc = "ready"
    /\ last.op = "adjust"
    /\ last.target # << >>
    /\ last.target[1].isDeleted
    /\ ItemOf(items, last.id).isDeleted
    /\ ItemOf(items, last.id).quantity = last.target[1].quantity + last.arg
    /\ last.arg # 0

\* the seed collection, built at some clock value of the run
IsSeedCollection(coll) == \E ms \in ClockValues : coll = SeedItems(ms)

\* C4: when the persistent store yields nothing or data that cannot be
\* parsed, the collection the component starts with is the 4-item seed
\* collection.
C4_SeedOnNothingOrGarbage ==
    (/\ pc = "ready"
     /\ last.op \in {"init", "restart"}
     /\ saved.kind \in {"null", "empty", "malformed"}) => IsSeedCollection(items)

\* C5: once a mutation has completed, the persistent store holds the full
\* current collection: parsing it gives every item with every field.
C5_PersistenceMirror ==
    (pc = "ready" /\ last.op \in MutationOps) =>
        /\ ~JSONparseThrows(storage)
        /\ JSONparse(storage) = items

\* C5 witness: a softDelete has completed on an item of the collection, and
\* the stored text carries the flag.
C5_Witness ==
    /\ pc = "ready"
    /\ last.op = "softDelete"
    /\ \E i \in 1 .. Len(items) :
          /\ items[i].id = last.id
          /\ items[i].isDeleted
          /\ storage.elems[i].isDeleted.lit = "true"

\* C6: after a restart the component holds the collection it held before the
\* restart, every field unchanged; a stored collection that is empty is
\* adopted as it is, not replaced by seed data.
C6_RestartRoundTrip ==
    /\ (pc = "ready" /\ last.op = "restart") => items = last.arg
    /\ (/\ pc = "ready"
        /\ last.op \in {"init", "restart"}
        /\ saved.kind = "array"
        /\ saved.elems = << >>) => items = << >>

\* C6 witness: the component was restarted after mutations (one item is
\* soft-deleted, one was added) and has loaded its collection again.
C6_Witness ==
    /\ pc = "ready"
    /\ last.op = "restart"
    /\ \E i \in 1 .. Len(items) : items[i].isDeleted
    /\ \E i \in 1 .. Len(items) : items[i].id \in UUIDs

\* the collection with the flag of the items carrying id set to b, and
\* nothing else changed
FlagSet(before, after, id, b) ==
    /\ Len(after) = Len(before)
    /\ \A i \in 1 .. Len(before) :
          /\ SameButFlag(after[i], before[i])
          /\ after[i].isDeleted = IF before[i].id = id THEN b ELSE before[i].isDeleted

\* C7: softDelete(id) sets isDeleted = true and restore(id) sets it to false
\* whatever the flag was, changing nothing else; either applied twice in
\* succession changes nothing the second time; softDelete(id) followed by
\* restore(id) leaves the item with isDeleted = false and every other field
\* as it was before the softDelete.
C7_SoftDeleteRestore ==
    [][ OpStep =>
           /\ last'.op = "softDelete" => FlagSet(items, items', last'.id, TRUE)
           /\ last'.op = "restore" => FlagSet(items, items', last'.id, FALSE)
           /\ (/\ last'.op \in {"softDelete", "restore"}
               /\ last.op = last'.op
               /\ last.id = last'.id) => items' = items
           /\ (/\ last.op = "softDelete"
               /\ last'.op = "restore"
               /\ last.id = last'.id) =>
                 /\ Len(WithId(items', last.id)) = Len(last.target)
                 /\ \A i \in 1 .. Len(last.target) :
                       /\ SameButFlag(WithId(items', last.id)[i], last.target[i])
                       /\ ~WithId(items', last.id)[i].isDeleted
      ]_vars

\* C7 witness: restore(id) ran on an item that was soft-deleted, and the item
\* is active again.
C7_Witness ==
    /\ pc = "ready"
    /\ last.op = "restore"
    /\ last.target # << >>
    /\ last.target[1].isDeleted
    /\ ~ItemOf(items, last.id).isDeleted

\* C8: whenever a step of the running component removes an item from the
\* collection, the step is a purge of that item and the item had
\* isDeleted = true before the step.
C8_RemovedOnlyByPurgeFromTrash ==
    [][ (pc = "ready" /\ pc' = "ready") =>
           \A i \in 1 .. Len(items) :
               items[i].id \notin IdsOf(items') =>
                   /\ OpStep
                   /\ last'.op = "purge"
                   /\ last'.id = items[i].id
                   /\ items[i].isDeleted
      ]_vars

\* C8 witness: a purge removed an item that was in the trash.
C8_Witness ==
    /\ pc = "ready"
    /\ last.op = "purge"
    /\ last.target # << >>
    /\ last.target[1].isDeleted
    /\ last.id \notin IdsOf(items)

\* C9: an item that was purged appears in no projection, for every filter
\* category, search term and mode, and does not come back whatever is called
\* on its id afterwards.
C9_PurgedNeverShown ==
    \A id \in purged :
        /\ id \notin IdsOf(items)
        /\ \A trash \in BOOLEAN, cat \in Filters, term \in SearchTerms :
              id \notin IdsOf(filteredItems(items, trash, cat, term))

\* C9 witness: softDelete, restore or adjustQuantity was called on the id of
\* an item purged before.
C9_Witness ==
    /\ pc = "ready"
    /\ last.op \in {"softDelete", "restore", "adjust"}
    /\ last.id \in purged

\* no two items of the collection share an id
UniqueIds(coll) ==
    \A i, j \in 1 .. Len(coll) : coll[i].id = coll[j].id => i = j

\* C10: add(draft) leaves the collection with exactly one item more, the
\* others unchanged; the new item has isDeleted = false whatever the draft
\* carried, the draft's name, quantity, unit and category, and an id no item
\* had before; at all times no two items share an id and no item carries the
\* id of a purged item.
C10_Add ==
    /\ [][ (OpStep /\ last'.op = "add") =>
              /\ Len(items') = Len(items) + 1
              /\ \E k \in 1 .. Len(items') :
                    /\ items'[k].id = last'.id
                    /\ items'[k].id \notin IdsOf(items)
                    /\ ~items'[k].isDeleted
                    /\ items'[k].name = last'.arg.name
                    /\ items'[k].quantity = last'.arg.quantity
                    /\ items'[k].unit = last'.arg.unit
                    /\ items'[k].category = last'.arg.category
                    /\ \A i \in 1 .. Len(items) :
                          items'[IF i < k THEN i ELSE i + 1] = items[i]
         ]_vars
    /\ [](UniqueIds(items) /\ IdsOf(items) \cap purged = {})

\* C10 witness: an add whose draft carried isDeleted = true ran after a
\* purge; the new item is active.
C10_Witness ==
    /\ pc = "ready"
    /\ last.op = "add"
    /\ last.arg.isDeleted
    /\ purged # {}
    /\ ~ItemOf(items, last.id).isDeleted

-----------------------------------------------------------------------------
(* The derived view.                                                       *)

\* r holds the elements of s, each as often as s does
IsPermutationOf(r, s) ==
    /\ Len(r) = Len(s)
    /\ \A i \in 1 .. Len(s) :
          Cardinality({ k \in 1 .. Len(r) : r[k] = s[i] })
              = Cardinality({ k \in 1 .. Len(s) : s[k] = s[i] })

\* C11: in trash mode the list holds exactly the items with
\* isDeleted = true, whatever the category filter and the search term are:
\* it is the projection for category ALL and the empty term.
C11_TrashProjection ==
    showTrash =>
        LET r == Shown
            trashed == SelectSeq(items, LAMBDA item : item.isDeleted)
        IN  /\ IsPermutationOf(r, trashed)
            /\ r = filteredItems(items, TRUE, "ALL", << >>)

\* C11 witness: in trash mode, with a category filter and a search term set
\* that both reject the one soft-deleted item, the list holds that item;
\* the collection also holds active items.
C11_Witness ==
    /\ showTrash
    /\ filterCategory # "ALL"
    /\ searchTerm # << >>
    /\ \E i, j \in 1 .. Len(items) :
          /\ items[i].isDeleted
          /\ ~items[j].isDeleted
          /\ items[i].category # filterCategory
          /\ ~includes(toLowerCase(items[i].name), toLowerCase(searchTerm))
          /\ Shown = << items[i] >>

\* two code units are the same letter, upper or lower case
SameLetter(a, b) ==
    \/ a = b
    \/ a \in 65 .. 90 /\ b = a + 32
    \/ b \in 65 .. 90 /\ a = b + 32

\* name contains term as a substring, case-insensitively
ContainsIgnoringCase(name, term) ==
    \E off \in 0 .. (Len(name) - Len(term)) :
        \A k \in 1 .. Len(term) : SameLetter(name[off + k], term[k])

\* C12: in normal mode the list holds exactly the active items whose
\* category is the filter category (any category under ALL) and whose name
\* contains the search term case-insensitively; the empty term matches every
\* name, and quantity plays no role.
C12_NormalProjection ==
    ~showTrash =>
        LET r == Shown
            InCategory(item) ==
                filterCategory = "ALL" \/ item.category = filterCategory
            Expected(item) ==
                /\ ~item.isDeleted
                /\ InCategory(item)
                /\ ContainsIgnoringCase(item.name, searchTerm)
            expected == SelectSeq(items, Expected)
        IN  /\ IsPermutationOf(r, expected)
            /\ searchTerm = << >> =>
                  Len(r) = Len(SelectSeq(items, LAMBDA item :
                                ~item.isDeleted /\ InCategory(item)))

\* C12 witness: the typed term finds an active item whose name contains it
\* in another case, inside the name, and leaves another active item out.
C12_Witness ==
    /\ ~showTrash
    /\ searchTerm # << >>
    /\ \E i, j \in 1 .. Len(items) :
          /\ ~items[i].isDeleted /\ ~items[j].isDeleted
          /\ ~includes(items[i].name, searchTerm)
          /\ Len(items[i].name) > Len(searchTerm)
          /\ Shown = << items[i] >>
          /\ i # j

\* the place of an item in a collection (ids are unique, see C10)
PositionIn(coll, item) == CHOOSE k \in 1 .. Len(coll) : coll[k].id = item.id

\* C13: the list, in trash mode or normal mode, is ordered by addedDate from
\* the latest to the earliest; items with equal addedDate keep the relative
\* order they have in the collection.
C13_ProjectionOrder ==
    LET r == Shown
    IN  \A i, j \in 1 .. Len(r) :
            i < j =>
               /\ getTime(r[i].addedDate) >= getTime(r[j].addedDate)
               /\ r[i].addedDate = r[j].addedDate =>
                     PositionIn(items, r[i]) < PositionIn(items, r[j])

\* C13 witness: the list holds two items with the same addedDate, in
\* collection order, and an earlier item after them.
C13_Witness ==
    /\ Len(Shown) >= 3
    /\ Shown[1].addedDate = Shown[2].addedDate
    /\ PositionIn(items, Shown[1]) < PositionIn(items, Shown[2])
    /\ getTime(Shown[3].addedDate) < getTime(Shown[2].addedDate)

\* the first session of a run whose store held nothing: the load effect read
\* null or the empty string, and a restart would read what was saved since
FirstSessionOnEmptyStore == pc = "ready" /\ saved \in {NoEntry, EmptyText}

\* C14: after initialization with an empty store the collection is the four
\* seed items, dated 1, 0, 4 and 8 days before the load, all active, and the
\* normal projection lists them in offset order 0, 1, 4, 8; after softDelete
\* of the offset-8 item the trash projection is exactly that item and the
\* normal projection exactly the other three.
C14_SeedScenario ==
    LET offsets == << 1, 0, 4, 8 >>
    IN  /\ (FirstSessionOnEmptyStore /\ last.op = "init") =>
              /\ Len(items) = 4
              /\ \A i \in 1 .. 4 : ~items[i].isDeleted
              /\ \E ms \in ClockValues : \A i \in 1 .. 4 :
                    getTime(items[i].addedDate) = ms - offsets[i] * MS_PER_DAY
              /\ filteredItems(items, FALSE, "ALL", << >>)
                    = << items[2], items[1], items[3], items[4] >>
        /\ ( /\ FirstSessionOnEmptyStore /\ nops = 1 /\ last.op = "softDelete"
             /\ last.target # << >>
             /\ \E ms \in ClockValues :
                   getTime(last.target[1].addedDate) = ms - 8 * MS_PER_DAY ) =>
              /\ filteredItems(items, FALSE, "ALL", << >>)
                    = << items[2], items[1], items[3] >>
              /\ filteredItems(items, TRUE, "ALL", << >>) = << items[4] >>
              /\ items[4].id = last.id
              /\ SameButFlag(items[4], last.target[1])

\* C14 witness: the first operation on the seed collection was softDelete of
\* the item dated 8 days back, and the trash projection holds one item.
C14_Witness ==
    /\ FirstSessionOnEmptyStore /\ nops = 1 /\ last.op = "softDelete"
    /\ last.target # << >>
    /\ getDaysStored(last.target[1].addedDate, EPOCH_DAY * MS_PER_DAY) = 8
    /\ Len(filteredItems(items, TRUE, "ALL", << >>)) = 1
    /\ Len(filteredItems(items, FALSE, "ALL", << >>)) = 3

-----------------------------------------------------------------------------
(* The rows: days stored and freshness.                                    *)

\* the tier of a day count: FRESH is shown emerald, MEDIUM amber, OLD rose
Tiers ==
    [ emerald |-> { d \in Nat : d <= 3 },
      amber   |-> { d \in Nat : d >= 4 /\ d <= 7 },
      rose    |-> { d \in Nat : d >= 8 } ]

C16_DaysStored ==
    last.op = "render" =>
        LET d == last.arg.daysStored
            clock == last.arg.now
            added == getTime(last.target[1].addedDate)
            gap == IF clock >= added THEN clock - added ELSE added - clock
        IN  /\ d >= 0
            /\ d * MS_PER_DAY <= gap
            /\ gap < (d + 1) * MS_PER_DAY
            /\ gap < MS_PER_DAY => d = 0
            /\ getDaysStored(toISOString(clock), added) = d

\* C16 witness: a row was rendered for an item whose addedDate lies a day
\* and a half after the clock.
C16_Witness ==
    /\ last.op = "render"
    /\ getTime(last.target[1].addedDate) - last.arg.now
          = MS_PER_DAY + MS_PER_DAY \div 2
    /\ last.arg.daysStored = 1

-----------------------------------------------------------------------------
(* Frame conditions of the store operations.                               *)

\* C17: adjustQuantity, softDelete, restore and purge called with an id that
\* no item of the collection carries leave the collection as it is: the same
\* items, with the same fields, in the same order.
C17_AbsentTargetNoOp ==
    [][ ( /\ OpStep
          /\ last'.op \in {"adjust", "softDelete", "restore", "purge"}
          /\ last'.id \notin IdsOf(items) ) => items' = items ]_vars

\* C17 witness: the id of a purged item was handed to adjustQuantity while
\* the collection held other items.
C17_Witness ==
    /\ pc = "ready"
    /\ last.op = "adjust"
    /\ last.target = << >>
    /\ last.id \in purged
    /\ items # << >>

\* the fields that are fixed at creation agree
SameIdentity(a, b) ==
    /\ a.id = b.id /\ a.name = b.name /\ a.unit = b.unit
    /\ a.category = b.category /\ a.addedDate = b.addedDate

\* the items of a collection other than the one that carries id, in order
Others(coll, id) == SelectSeq(coll, LAMBDA item : item.id # id)

\* C18: an item's id, name, unit, category and addedDate never change once
\* it is in the collection; adjustQuantity changes only the quantity of its
\* target, softDelete and restore only the isDeleted flag of theirs, and an
\* operation on one id leaves the other items, their fields and their
\* relative order as they were.
C18_Frame ==
    [][ /\ \A i \in 1 .. Len(items), j \in 1 .. Len(items') :
              items[i].id = items'[j].id => SameIdentity(items[i], items'[j])
        /\ OpStep => Others(items', last'.id) = Others(items, last'.id)
        /\ (OpStep /\ last'.op = "adjust") =>
              /\ Len(items') = Len(items)
              /\ \A i \in 1 .. Len(items) : SameButQuantity(items[i], items'[i])
        /\ (OpStep /\ last'.op \in {"softDelete", "restore"}) =>
              /\ Len(items') = Len(items)
              /\ \A i \in 1 .. Len(items) : SameButFlag(items[i], items'[i])
      ]_vars

\* C18 witness: adjustQuantity changed the quantity of a soft-deleted item
\* that is neither the first nor the only item of the collection.
C18_Witness ==
    /\ pc = "ready"
    /\ last.op = "adjust"
    /\ last.target # << >>
    /\ last.target[1].isDeleted
    /\ ItemOf(items, last.id).isDeleted
    /\ ItemOf(items, last.id).quantity # last.target[1].quantity
    /\ items[1].id # last.id

-----------------------------------------------------------------------------
(* Startup and the store.                                                  *)

\* C19: when the store holds a valid collection P at startup, the store
\* holds P at every step from the start of initialization until the first
\* user mutation: no save of the startup writes another collection, such as
\* the empty collection of the first render. (saved is what the load effect
\* read, that is P; last.op tells that no operation ran since the start.)
C19_StartupKeepsStore ==
    ( /\ pc \in {"loaded", "saved", "ready"}
      /\ last.op \in {"init", "restart"}
      /\ saved.kind = "array" ) => storage = saved

-----------------------------------------------------------------------------
(* Adding and the view.                                                    *)

\* C20: when no item of the collection is dated later than the clock, the
\* item that add creates is the first of the normal projection for category
\* ALL and the empty term right after the add, also when items of the
\* collection carry the same addedDate.
C20_NewItemFirst ==
    [][ ( /\ OpStep
          /\ last'.op = "add"
          /\ \A i \in 1 .. Len(items) : getTime(items[i].addedDate) <= now ) =>
           LET r == filteredItems(items', FALSE, "ALL", << >>)
           IN  r # << >> /\ r[1].id = last'.id
      ]_vars

\* C20 witness: an item was added at the clock value another active item is
\* dated with, and it is the first of the projection.
C20_Witness ==
    /\ pc = "ready"
    /\ last.op = "add"
    /\ LET r == filteredItems(items, FALSE, "ALL", << >>)
       IN  /\ Len(r) >= 2
           /\ r[1].id = last.id
           /\ r[2].addedDate = r[1].addedDate

=============================================================================
